---- MODULE Spec2Model ----
(***************************************************************************)
(* Forwarding handler of redstarnv/proxy (src/proxy.go).                   *)
(*                                                                         *)
(* src/proxy.go holds two revisions of the package.  The current one       *)
(* (lines 134-291) is the handler with the Data record carrying Error,     *)
(* Times and Source; its steps are the actions of Next.  The earlier one   *)
(* (lines 1-132), the one the test file exercises, is the handler with a   *)
(* ResultCallback; its steps are the actions of NextLegacy.                *)
(*                                                                         *)
(* One inbound request is followed from the call of the handler to its     *)
(* return.  The goroutines of http.Transport that serve the round trip     *)
(* (the write loop, which reads the request body through the TeeReader,    *)
(* and the read loop, which delivers the response) are processes of their  *)
(* own, interleaved with the handler.  Other requests in flight on the     *)
(* same handler appear only through the one thing they share with this     *)
(* request, the outbound channel: OtherSend is another request's send.     *)
(***************************************************************************)
EXTENDS Integers, Sequences, FiniteSets, TLC

\* ------------------------------------------------------------------ bounds
\* longest request / response body
MaxBody == 2
\* capacity of the outbound channel (make(chan Data, n))
ChanCap == 1
\* longest inbound path, in units (see WireUnits)
MaxPath == 3

\* --------------------------------------------------------- program constants
StatusOK == 200
StatusInternalServerError == 500
StatusServiceUnavailable == 503
httpMaxIdleConns == 100

\* ------------------------------------------------------------------ inputs
Methods == {"POST", "BAD METHOD"}
HeaderKeys == {"Source", "X-Header"}
\* the values a header key carries, in order; <<>> is an absent key
ValueLists == {<<>>, <<"v1">>, <<"v2", "v1">>}
HeaderMaps == [HeaderKeys -> ValueLists]
EmptyHeader == [k \in HeaderKeys |-> <<>>]
\* the header maps of inbound requests: no header; a Source next to a
\* two-valued header; a one-valued header and no Source
RequestHeaders ==
  {h \in HeaderMaps : Len(h["Source"]) + 1 = Len(h["X-Header"])
                         \/ h = EmptyHeader}
\* a header map with only X-Header, carrying the values vs
XHeader(vs) == [k \in HeaderKeys |-> IF k = "X-Header" THEN vs ELSE <<>>]
\* the status lines and headers of upstream responses: the code never
\* relates a status to a header, so each status comes with one header map
UpstreamResponses ==
  {[StatusCode |-> StatusOK, Header |-> XHeader(<<"v1">>)],
   [StatusCode |-> StatusInternalServerError,
    Header |-> XHeader(<<"v2", "v1">>)],
   [StatusCode |-> StatusServiceUnavailable, Header |-> EmptyHeader]}
\* the body of n bytes: byte i is i, so a dropped, repeated or reordered
\* byte shows
Body(n) == [i \in 1..n |-> i]

IsPrefix(s, t) == Len(s) <= Len(t) /\ SubSeq(t, 1, Len(s)) = s
Drop(s, n) == SubSeq(s, n + 1, Len(s))

VARIABLES
  pc,           \* the handler's position
  r,            \* the inbound *http.Request: Method, Header, Body as sent
  inBody,       \* bytes of r.Body not yet read
  w,            \* the http.ResponseWriter: what has been written to the caller
  d,            \* the Data record being filled
  requestBuf,   \* bytes.Buffer behind d.Request
  responseBuf,  \* bytes.Buffer behind d.Response
  cpend,        \* io.Copy: bytes read from res.Body, not yet written to w
  req,          \* the outbound *http.Request: Header, trace attached
  conn,         \* the upstream connection
  wstate,       \* the transport's write loop
  wpend,        \* write loop: bytes read from req.Body, not yet on the wire
  upRecv,       \* request body bytes written to the upstream connection
  rt,           \* RoundTrip's result
  firstByte,    \* the read loop has seen the first response byte
  res,          \* the upstream's response: StatusCode, Header, Body
  resBody,      \* bytes of res.Body not yet read
  upMode,       \* the upstream answers, or accepts and stays silent
  ch,           \* the outbound channel
  sent,         \* the records this request has sent on ch
  now,          \* the clock read by time.Now()
  fn            \* a call of a pure function: its arguments and its result

vars == <<pc, r, inBody, w, d, requestBuf, responseBuf, cpend, req, conn,
          wstate, wpend, upRecv, rt, firstByte, res, resBody, upMode, ch,
          sent, now, fn>>

\* ------------------------------------------------------------- data types
\* type Times struct (src/proxy.go:163); 0 is the zero time.Time
ZeroTimes == [Start |-> 0, WroteRequest |-> 0, GotFirstResponseByte |-> 0,
              End |-> 0]

\* type Data struct (src/proxy.go:148): the zero value of `var d Data`.
\* Request / Response are io.Reader: FALSE is the nil interface, TRUE is the
\* pointer to requestBuf / responseBuf.
ZeroData == [StatusCode |-> 0, Request |-> FALSE, Response |-> FALSE,
             Error |-> "", Times |-> ZeroTimes, Source |-> ""]

\* what a receiver of the record reads through it when it is sent
Snapshot(rec, rbuf, sbuf) ==
  [StatusCode |-> rec.StatusCode,
   Request |-> [nil |-> ~rec.Request,
                bytes |-> IF rec.Request THEN rbuf ELSE <<>>],
   Response |-> [nil |-> ~rec.Response,
                 bytes |-> IF rec.Response THEN sbuf ELSE <<>>],
   Error |-> rec.Error, Times |-> rec.Times, Source |-> rec.Source]

\* the ResponseWriter before anything is written
NewResponseWriter == [wroteHeader |-> FALSE, Code |-> 0,
                      Header |-> EmptyHeader, SentHeader |-> EmptyHeader,
                      Body |-> <<>>, ErrText |-> <<>>, alive |-> TRUE]

\* --------------------------------------------------------- pure functions
\* http.Header.Get: the first value of the key, "" when absent
Get(h, k) == IF h[k] = <<>> THEN "" ELSE h[k][1]
\* http.Header.Set: the key's values replaced by the single value
Set(h, k, v) == [h EXCEPT ![k] = <<v>>]

\* a copy that keeps the last value of a repeated key
copyHeadersLast(dst, src) ==
  [k \in HeaderKeys |->
     IF src[k] # <<>> THEN <<src[k][Len(src[k])]>> ELSE dst[k]]

\* a copy that adds the value to the ones the destination has
copyHeadersAdd(dst, src) ==
  [k \in HeaderKeys |->
     IF src[k] # <<>> THEN Append(dst[k], Get(src, k)) ELSE dst[k]]

\* func copyHeaders: for k := range src { dst.Set(k, src.Get(k)) }
copyHeaders(dst, src) ==
  [k \in HeaderKeys |-> IF src[k] # <<>> THEN Set(dst, k, Get(src, k))[k]
                        ELSE dst[k]]

\* ------------------------------------------------------------ net/url
\* A path is a sequence of units: the separator, a letter, a space, or a
\* percent-escape as it stands in a request line.
WireUnits == {"/", "a", "%2F", "%20"}
\* the paths of request lines: they start with the separator
WirePaths ==
  {p \in UNION {[1..n -> WireUnits] : n \in 1..MaxPath} : p[1] = "/"}
\* url.unescape: a percent-escape becomes the character it stands for
unescape(p) ==
  [i \in 1..Len(p) |-> CASE p[i] = "%2F" -> "/"
                         [] p[i] = "%20" -> " "
                         [] OTHER -> p[i]]
\* url.escape(_, encodePath): a space is escaped; a letter and the
\* separator are not
escape(p) == [i \in 1..Len(p) |-> IF p[i] = " " THEN "%20" ELSE p[i]]

\* url.Parse of a request target (URL.setPath): Path is the decoded path,
\* RawPath is kept only when the path is not the default encoding of Path
ParseURL(scheme, host, p, query, fragment) ==
  [Scheme |-> scheme, Host |-> host, Path |-> unescape(p),
   RawPath |-> IF escape(unescape(p)) = p THEN <<>> ELSE p,
   RawQuery |-> query, Fragment |-> fragment]

\* URL.EscapedPath: RawPath when it is an encoding of Path, else the
\* default encoding of Path
EscapedPath(u) ==
  IF u.RawPath # <<>> /\ unescape(u.RawPath) = u.Path THEN u.RawPath
  ELSE escape(u.Path)

\* URL.String, as the sequence of the pieces it writes
String(u) ==
  LET path == EscapedPath(u)
  IN (IF u.Scheme # "" THEN <<u.Scheme, ":">> ELSE <<>>)
     \o (IF (u.Scheme # "" \/ u.Host # "") /\ (u.Host # "" \/ u.Path # <<>>)
         THEN <<"//">> ELSE <<>>)
     \o (IF u.Host # "" THEN <<u.Host>> ELSE <<>>)
     \o (IF path # <<>> /\ path[1] # "/" /\ u.Host # "" THEN <<"/">>
         ELSE <<>>)
     \o path
     \o (IF u.RawQuery # "" THEN <<"?", u.RawQuery>> ELSE <<>>)
     \o (IF u.Fragment # "" THEN <<"#", u.Fragment>> ELSE <<>>)

\* func rewrite: url.URL{Scheme: target.Scheme, Host: target.Host,
\* Path: source.Path, RawQuery: source.RawQuery}.String()
rewrite(source, target) ==
  String([Scheme |-> target.Scheme, Host |-> target.Host,
          Path |-> source.Path, RawPath |-> <<>>,
          RawQuery |-> source.RawQuery, Fragment |-> ""])

\* the inbound r.URL: origin-form or absolute-form request target, with
\* or without a query and a fragment
SourceURLs ==
  {[wire |-> p, url |-> ParseURL(a[1], a[2], p, q, f)] :
     p \in WirePaths, a \in {<<"", "">>, <<"https", "in">>},
     q \in {"", "q=1"}, f \in {"", "frag"}}
\* the upstream target given to NewHandler, parsed
TargetURLs ==
  {ParseURL(sch, h, p, q, "") :
     sch \in {"http", "https"}, h \in {"up", "up:8080"},
     p \in {<<>>, <<"/", "a">>}, q \in {"", "t=1"}}

\* http.NewRequest rejects a method that is not a token
validMethod(m) == m # "BAD METHOD"

\* a reader that hands the bytes on without recording them
TeeReadForget(buf, chunk) == buf

\* a reader that records each chunk in front of the earlier ones
TeeReadPrepend(buf, chunk) == chunk \o buf

\* io.TeeReader.Read: the bytes read are written to the buffer
TeeRead(buf, chunk) == buf \o chunk

\* a transport without the response-header timeout
newTransportNoHeaderTimeout ==
  [DialTimeout |-> TRUE, KeepAlive |-> TRUE,
   MaxIdleConns |-> httpMaxIdleConns, IdleConnTimeout |-> TRUE,
   ResponseHeaderTimeout |-> FALSE]

\* func newTransport: which timeouts are set to the timeout given
newTransport ==
  [DialTimeout |-> TRUE, KeepAlive |-> TRUE,
   MaxIdleConns |-> httpMaxIdleConns, IdleConnTimeout |-> TRUE,
   ResponseHeaderTimeout |-> TRUE]

\* a writer on which a later WriteHeader replaces the status
WriteHeaderOverwrite(w0, code) ==
  [w0 EXCEPT !.wroteHeader = TRUE, !.Code = code, !.SentHeader = w0.Header]

\* w.WriteHeader(code): the first call sends the status line and a snapshot
\* of w.Header(); a later call is ignored
WriteHeader(w0, code) ==
  IF w0.wroteHeader THEN w0
  ELSE [w0 EXCEPT !.wroteHeader = TRUE, !.Code = code,
                  !.SentHeader = w0.Header]

\* http.Error(w, e, 503): WriteHeader(503), then the message is written to w
httpError(w0, e) ==
  LET w1 == WriteHeader(w0, StatusServiceUnavailable)
  IN IF w1.alive THEN [w1 EXCEPT !.ErrText = Append(w1.ErrText, e)] ELSE w1

\* a send that is made only for a 200 record
chanSendOnlyOK(c, rec) ==
  IF rec.data.StatusCode = StatusOK THEN Append(c, rec) ELSE c

\* ch <- d, once there is room
chanSend(c, rec) == Append(c, rec)

\* d.StatusCode is left as it was
processStatusStale(resp, old) == old

\* d.StatusCode = res.StatusCode
processStatus(resp, old) == resp.StatusCode

\* the status of a failed round trip left at the zero value
roundTripFailedStatusZero(old) == old

\* d.StatusCode = http.StatusServiceUnavailable
roundTripFailedStatus(old) == StatusServiceUnavailable

\* ------------------------------------------------------------------- Init
\* no pure function is being called on its own
NoCall == [op |-> "none"]

\* the handler before a request arrives
HandlerInit ==
  /\ pc = "idle"
  /\ r = [Method |-> "POST", Header |-> EmptyHeader, Body |-> <<>>]
  /\ inBody = <<>>
  /\ w = NewResponseWriter
  /\ d = ZeroData
  /\ requestBuf = <<>>
  /\ responseBuf = <<>>
  /\ cpend = <<>>
  /\ req = [Header |-> EmptyHeader, trace |-> FALSE]
  /\ conn = "none"
  /\ wstate = "idle"
  /\ wpend = <<>>
  /\ upRecv = <<>>
  /\ rt = [state |-> "none", err |-> ""]
  /\ firstByte = FALSE
  /\ res = [StatusCode |-> 0, Header |-> EmptyHeader, Body |-> <<>>]
  /\ resBody = <<>>
  /\ upMode = "respond"
  /\ ch = <<>>
  /\ sent = <<>>
  /\ now = 0

Init == HandlerInit /\ fn = NoCall

\* a trace callback stamping field f of d.Times, when the trace is attached
Stamped(rec, f) == [rec EXCEPT !.Times[f] = now + 1]

\* ------------------------------------------------- the handler (182-200)
\* the server calls the handler: var d Data; d.Times.Start = time.Now()
ServeHTTP ==
  \E m \in Methods, h \in RequestHeaders, n \in 0..MaxBody :
    /\ pc = "idle"
    /\ r' = [Method |-> m, Header |-> h, Body |-> Body(n)]
    /\ inBody' = Body(n)
    /\ d' = Stamped(ZeroData, "Start")
    /\ now' = now + 1
    /\ pc' = "prepareRequest"
    /\ UNCHANGED <<fn, w, requestBuf, responseBuf, cpend, req, conn, wstate,
                   wpend, upRecv, rt, firstByte, res, resBody, upMode, ch,
                   sent>>

\* a prepareRequest that returns the error before d.Request is assigned
prepareRequestFailNoBuffer ==
  /\ pc = "prepareRequest"
  /\ ~validMethod(r.Method)
  /\ d' = [d EXCEPT !.Error = "construct"]
  /\ pc' = "end"
  /\ UNCHANGED <<fn, r, inBody, w, requestBuf, responseBuf, cpend, req, conn,
                 wstate, wpend, upRecv, rt, firstByte, res, resBody, upMode,
                 ch, sent, now>>

\* prepareRequest fails in http.NewRequest: d.Request = buf; return nil, err;
\* handleRequest returns err; d.Error = err
prepareRequestFail ==
  /\ pc = "prepareRequest"
  /\ ~validMethod(r.Method)
  /\ d' = [d EXCEPT !.Request = TRUE, !.Error = "construct"]
  /\ pc' = "end"
  /\ UNCHANGED <<fn, r, inBody, w, requestBuf, responseBuf, cpend, req, conn,
                 wstate, wpend, upRecv, rt, firstByte, res, resBody, upMode,
                 ch, sent, now>>

\* prepareRequest succeeds: headers copied, trace attached; handleRequest
\* sets d.Source and calls process, which calls transport.RoundTrip(req)
prepareRequestOk ==
  /\ pc = "prepareRequest"
  /\ validMethod(r.Method)
  /\ req' = [Header |-> copyHeaders(EmptyHeader, r.Header), trace |-> TRUE]
  /\ d' = [d EXCEPT !.Request = TRUE, !.Source = Get(r.Header, "Source")]
  /\ rt' = [state |-> "pending", err |-> ""]
  /\ conn' = "dialing"
  /\ pc' = "RoundTrip"
  /\ UNCHANGED <<fn, r, inBody, w, requestBuf, responseBuf, cpend, wstate,
                 wpend, upRecv, firstByte, res, resBody, upMode, ch, sent,
                 now>>

\* process: RoundTrip returned an error
processRoundTripErr ==
  /\ pc = "RoundTrip"
  /\ rt.state = "err"
  /\ d' = [d EXCEPT !.StatusCode = roundTripFailedStatus(d.StatusCode),
                    !.Error = rt.err]
  /\ pc' = "end"
  /\ UNCHANGED <<fn, r, inBody, w, requestBuf, responseBuf, cpend, req, conn,
                 wstate, wpend, upRecv, rt, firstByte, res, resBody, upMode,
                 ch, sent, now>>

\* process: RoundTrip returned a response; d.StatusCode, copyHeaders,
\* w.WriteHeader(res.StatusCode)
processWriteHeader ==
  /\ pc = "RoundTrip"
  /\ rt.state = "ok"
  /\ d' = [d EXCEPT !.StatusCode = processStatus(res, d.StatusCode)]
  /\ w' = WriteHeader([w EXCEPT !.Header = copyHeaders(w.Header, res.Header)],
                      res.StatusCode)
  /\ pc' = "Copy"
  /\ UNCHANGED <<fn, r, inBody, requestBuf, responseBuf, cpend, req, conn,
                 wstate, wpend, upRecv, rt, firstByte, res, resBody, upMode,
                 ch, sent, now>>

\* deferred res.Body.Close(): a connection whose request is still being
\* written is not reused, it is closed
CloseBody == IF wstate = "writing" THEN "closed" ELSE conn

\* io.Copy reads through the TeeReader: n bytes of res.Body go to responseBuf
processCopyRead ==
  \E n \in 1..MaxBody :
    /\ pc \in {"Copy", "L.Copy"}
    /\ cpend = <<>>
    /\ n <= Len(resBody)
    /\ responseBuf' = TeeRead(responseBuf, SubSeq(resBody, 1, n))
    /\ cpend' = SubSeq(resBody, 1, n)
    /\ resBody' = Drop(resBody, n)
    /\ UNCHANGED <<fn, pc, r, inBody, w, d, requestBuf, req, conn, wstate,
                   wpend, upRecv, rt, firstByte, res, upMode, ch, sent, now>>

\* io.Copy writes the bytes it read to w
processCopyWrite ==
  /\ pc \in {"Copy", "L.Copy"}
  /\ cpend # <<>>
  /\ w' = [w EXCEPT !.Body = w.Body \o cpend]
  /\ cpend' = <<>>
  /\ UNCHANGED <<fn, pc, r, inBody, d, requestBuf, responseBuf, req, conn,
                 wstate, wpend, upRecv, rt, firstByte, res, resBody, upMode,
                 ch, sent, now>>

\* the write to w fails (the caller is gone): d.Response = responseBuf;
\* return err
processCopyWriteErr ==
  /\ pc = "Copy"
  /\ cpend # <<>>
  /\ w' = [w EXCEPT !.alive = FALSE]
  /\ d' = [d EXCEPT !.Response = TRUE, !.Error = "write"]
  /\ conn' = CloseBody
  /\ pc' = "end"
  /\ UNCHANGED <<fn, r, inBody, requestBuf, responseBuf, cpend, req, wstate,
                 wpend, upRecv, rt, firstByte, res, resBody, upMode, ch,
                 sent, now>>

\* the read of res.Body fails before its end (the upstream stream breaks)
processCopyReadErr ==
  /\ pc = "Copy"
  /\ cpend = <<>>
  /\ resBody # <<>>
  /\ d' = [d EXCEPT !.Response = TRUE, !.Error = "truncated"]
  /\ conn' = "closed"
  /\ pc' = "end"
  /\ UNCHANGED <<fn, r, inBody, w, requestBuf, responseBuf, cpend, req, wstate,
                 wpend, upRecv, rt, firstByte, res, resBody, upMode, ch,
                 sent, now>>

\* res.Body is at EOF: d.Response = responseBuf; return nil
processCopyEOF ==
  /\ pc = "Copy"
  /\ cpend = <<>>
  /\ resBody = <<>>
  /\ d' = [d EXCEPT !.Response = TRUE]
  /\ conn' = CloseBody
  /\ pc' = "end"
  /\ UNCHANGED <<fn, r, inBody, w, requestBuf, responseBuf, cpend, req, wstate,
                 wpend, upRecv, rt, firstByte, res, resBody, upMode, ch,
                 sent, now>>

\* d.Times.End = time.Now()
NewHandlerStampEnd ==
  /\ pc = "end"
  /\ d' = Stamped(d, "End")
  /\ now' = now + 1
  /\ pc' = "send"
  /\ UNCHANGED <<fn, r, inBody, w, requestBuf, responseBuf, cpend, req, conn,
                 wstate, wpend, upRecv, rt, firstByte, res, resBody, upMode,
                 ch, sent>>

\* the channel element of this request's record
Mine == [own |-> TRUE, data |-> Snapshot(d, requestBuf, responseBuf)]
\* the channel element of another request's record
Other == [own |-> FALSE, data |-> Snapshot(ZeroData, <<>>, <<>>)]
\* the records of this request among the channel elements c
Own(c) == LET o == SelectSeq(c, LAMBDA e : e.own)
          IN [i \in 1..Len(o) |-> o[i].data]

\* ch <- d: blocks while the channel is full
NewHandlerSend ==
  /\ pc = "send"
  /\ Len(ch) < ChanCap
  /\ ch' = chanSend(ch, Mine)
  /\ sent' = sent \o Own(SubSeq(ch', Len(ch) + 1, Len(ch')))
  /\ pc' = "respond"
  /\ UNCHANGED <<fn, r, inBody, w, d, requestBuf, responseBuf, cpend, req,
                 conn, wstate, wpend, upRecv, rt, firstByte, res, resBody,
                 upMode, now>>

\* if d.Error != nil { log.Printf; http.Error(w, ..., 503); return }
NewHandlerError ==
  /\ pc = "respond"
  /\ d.Error # ""
  /\ w' = httpError(w, d.Error)
  /\ pc' = "done"
  /\ UNCHANGED <<fn, r, inBody, d, requestBuf, responseBuf, cpend, req, conn,
                 wstate, wpend, upRecv, rt, firstByte, res, resBody, upMode,
                 ch, sent, now>>

\* log.Printf of the status; the handler returns
NewHandlerLog ==
  /\ pc = "respond"
  /\ d.Error = ""
  /\ pc' = "done"
  /\ UNCHANGED <<fn, r, inBody, w, d, requestBuf, responseBuf, cpend, req,
                 conn, wstate, wpend, upRecv, rt, firstByte, res, resBody,
                 upMode, ch, sent, now>>

\* ------------------------------------- the transport serving RoundTrip
\* the callbacks of the httptrace.ClientTrace attached in prepareRequest
\* (268-275); they run on the transport's goroutines
Traced(f) == IF req.trace THEN Stamped(d, f) ELSE d
Tick == IF req.trace THEN now + 1 ELSE now

\* the dial fails (connection refused): RoundTrip returns the error
TransportDialFail ==
  /\ conn = "dialing"
  /\ conn' = "closed"
  /\ rt' = [state |-> "err", err |-> "refused"]
  /\ UNCHANGED <<fn, pc, r, inBody, w, d, requestBuf, responseBuf, cpend, req,
                 wstate, wpend, upRecv, firstByte, res, resBody, upMode, ch,
                 sent, now>>

\* the upstream accepts the connection; the write loop starts on the request
TransportDialOk ==
  \E m \in {"respond", "silent"} :
    /\ conn = "dialing"
    /\ conn' = "open"
    /\ wstate' = "writing"
    /\ upMode' = m
    /\ UNCHANGED <<fn, pc, r, inBody, w, d, requestBuf, responseBuf, cpend, req,
                   wpend, upRecv, rt, firstByte, res, resBody, ch, sent, now>>

\* r.Body is open until the deferred r.Body.Close() runs: at the handler's
\* return (183), in the earlier revision at the return of process (74)
BodyOpen == pc \notin {"done", "L.ok", "L.error"}

\* write loop: req.Body.Read, the TeeReader over r.Body (260): the bytes read
\* go to the capture buffer
WriteLoopRead ==
  \E n \in 1..MaxBody :
    /\ wstate = "writing"
    /\ BodyOpen
    /\ wpend = <<>>
    /\ n <= Len(inBody)
    /\ requestBuf' = TeeRead(requestBuf, SubSeq(inBody, 1, n))
    /\ wpend' = SubSeq(inBody, 1, n)
    /\ inBody' = Drop(inBody, n)
    /\ UNCHANGED <<fn, pc, r, w, d, responseBuf, cpend, req, conn, wstate,
                   upRecv, rt, firstByte, res, resBody, upMode, ch, sent,
                   now>>

\* write loop: the bytes read are written to the upstream connection
WriteLoopWrite ==
  /\ wstate = "writing"
  /\ conn = "open"
  /\ wpend # <<>>
  /\ upRecv' = upRecv \o wpend
  /\ wpend' = <<>>
  /\ UNCHANGED <<fn, pc, r, inBody, w, d, requestBuf, responseBuf, cpend, req,
                 conn, wstate, rt, firstByte, res, resBody, upMode, ch, sent,
                 now>>

\* write loop: the body is at EOF, the request is fully written; the
\* WroteRequest callback runs
WriteLoopDone ==
  /\ wstate = "writing"
  /\ conn = "open"
  /\ wpend = <<>>
  /\ inBody = <<>>
  /\ wstate' = "done"
  /\ d' = Traced("WroteRequest")
  /\ now' = Tick
  /\ UNCHANGED <<fn, pc, r, inBody, w, requestBuf, responseBuf, cpend, req,
                 conn, wpend, upRecv, rt, firstByte, res, resBody, upMode,
                 ch, sent>>

\* write loop: the write ends in an error: the caller's body cannot be read,
\* or the connection is closed.  The WroteRequest callback runs with the
\* error, and a pending RoundTrip returns it.
WriteLoopFail ==
  /\ wstate = "writing"
  /\ \/ wpend = <<>> /\ inBody # <<>>
     \/ conn = "closed"
  /\ wstate' = "failed"
  /\ wpend' = <<>>
  /\ conn' = "closed"
  /\ rt' = IF rt.state = "pending" THEN [state |-> "err", err |-> "write"]
           ELSE rt
  /\ d' = Traced("WroteRequest")
  /\ now' = Tick
  /\ UNCHANGED <<fn, pc, r, inBody, w, requestBuf, responseBuf, cpend, req,
                 upRecv, firstByte, res, resBody, upMode, ch, sent>>

\* read loop: the first byte of the response arrives; the
\* GotFirstResponseByte callback runs
ReadLoopFirstByte ==
  /\ conn = "open"
  /\ rt.state = "pending"
  /\ upMode = "respond"
  /\ ~firstByte
  /\ firstByte' = TRUE
  /\ d' = Traced("GotFirstResponseByte")
  /\ now' = Tick
  /\ UNCHANGED <<fn, pc, r, inBody, w, requestBuf, responseBuf, cpend, req,
                 conn, wstate, wpend, upRecv, rt, res, resBody, upMode, ch,
                 sent>>

\* read loop: the response's status line and headers are read; RoundTrip
\* returns the response
ReadLoopResponse ==
  \E u \in UpstreamResponses, n \in 0..MaxBody :
    /\ conn = "open"
    /\ rt.state = "pending"
    /\ firstByte
    /\ res' = [StatusCode |-> u.StatusCode, Header |-> u.Header,
               Body |-> Body(n)]
    /\ resBody' = Body(n)
    /\ rt' = [state |-> "ok", err |-> ""]
    /\ UNCHANGED <<fn, pc, r, inBody, w, d, requestBuf, responseBuf, cpend, req,
                   conn, wstate, wpend, upRecv, firstByte, upMode, ch, sent,
                   now>>

\* the upstream resets the connection before the response is complete
ReadLoopReset ==
  /\ conn = "open"
  /\ rt.state = "pending"
  /\ upMode = "respond"
  /\ conn' = "closed"
  /\ rt' = [state |-> "err", err |-> "reset"]
  /\ UNCHANGED <<fn, pc, r, inBody, w, d, requestBuf, responseBuf, cpend, req,
                 wstate, wpend, upRecv, firstByte, res, resBody, upMode, ch,
                 sent, now>>

\* ResponseHeaderTimeout (223): armed once the request is fully written, it
\* fires when no response has been returned
TransportHeaderTimeout ==
  /\ newTransport.ResponseHeaderTimeout
  /\ conn = "open"
  /\ rt.state = "pending"
  /\ wstate = "done"
  /\ conn' = "closed"
  /\ rt' = [state |-> "err", err |-> "timeout"]
  /\ UNCHANGED <<fn, pc, r, inBody, w, d, requestBuf, responseBuf, cpend, req,
                 wstate, wpend, upRecv, firstByte, res, resBody, upMode, ch,
                 sent, now>>

\* ------------------------------------------------- the outbound channel
\* another request in flight on the handler sends its record
OtherSend ==
  /\ Len(ch) < ChanCap
  /\ ch' = Append(ch, Other)
  /\ UNCHANGED <<fn, pc, r, inBody, w, d, requestBuf, responseBuf, cpend, req,
                 conn, wstate, wpend, upRecv, rt, firstByte, res, resBody,
                 upMode, sent, now>>

\* the consumer receives from the channel
Receive ==
  /\ ch # <<>>
  /\ ch' = Tail(ch)
  /\ UNCHANGED <<fn, pc, r, inBody, w, d, requestBuf, responseBuf, cpend, req,
                 conn, wstate, wpend, upRecv, rt, firstByte, res, resBody,
                 upMode, sent, now>>

\* ------------------------------- the earlier handler (src/proxy.go:33-120)
\* d holds the Data that process returns and d.Error its second result, err

\* the server calls the handler, which calls process (41)
LegacyServeHTTP ==
  \E m \in Methods, h \in RequestHeaders, n \in 0..MaxBody :
    /\ pc = "idle"
    /\ r' = [Method |-> m, Header |-> h, Body |-> Body(n)]
    /\ inBody' = Body(n)
    /\ pc' = "L.prepareRequest"
    /\ UNCHANGED <<fn, w, d, requestBuf, responseBuf, cpend, req, conn, wstate,
                   wpend, upRecv, rt, firstByte, res, resBody, upMode, ch,
                   sent, now>>

\* prepareRequest fails (113-116); process returns Data{}, err (82)
LegacyPrepareRequestFail ==
  /\ pc = "L.prepareRequest"
  /\ ~validMethod(r.Method)
  /\ d' = [ZeroData EXCEPT !.Error = "construct"]
  /\ pc' = "L.error"
  /\ UNCHANGED <<fn, r, inBody, w, requestBuf, responseBuf, cpend, req, conn,
                 wstate, wpend, upRecv, rt, firstByte, res, resBody, upMode,
                 ch, sent, now>>

\* prepareRequest succeeds (113-119); process calls transport.RoundTrip (85)
LegacyPrepareRequestOk ==
  /\ pc = "L.prepareRequest"
  /\ validMethod(r.Method)
  /\ req' = [Header |-> copyHeaders(EmptyHeader, r.Header), trace |-> FALSE]
  /\ rt' = [state |-> "pending", err |-> ""]
  /\ conn' = "dialing"
  /\ pc' = "L.RoundTrip"
  /\ UNCHANGED <<fn, r, inBody, w, d, requestBuf, responseBuf, cpend, wstate,
                 wpend, upRecv, firstByte, res, resBody, upMode, ch, sent,
                 now>>

\* RoundTrip returned an error; process returns Data{}, err (86-88)
LegacyRoundTripErr ==
  /\ pc = "L.RoundTrip"
  /\ rt.state = "err"
  /\ d' = [ZeroData EXCEPT !.Error = rt.err]
  /\ pc' = "L.error"
  /\ UNCHANGED <<fn, r, inBody, w, requestBuf, responseBuf, cpend, req, conn,
                 wstate, wpend, upRecv, rt, firstByte, res, resBody, upMode,
                 ch, sent, now>>

\* RoundTrip returned a response: copyHeaders, w.WriteHeader (93-94)
LegacyWriteHeader ==
  /\ pc = "L.RoundTrip"
  /\ rt.state = "ok"
  /\ w' = WriteHeader([w EXCEPT !.Header = copyHeaders(w.Header, res.Header)],
                      res.StatusCode)
  /\ pc' = "L.Copy"
  /\ UNCHANGED <<fn, r, inBody, d, requestBuf, responseBuf, cpend, req, conn,
                 wstate, wpend, upRecv, rt, firstByte, res, resBody, upMode,
                 ch, sent, now>>

\* return Data{res.StatusCode, requestBuf, responseBuf}, err (97-101)
LegacyData(e) == [ZeroData EXCEPT !.StatusCode = res.StatusCode,
                                  !.Request = TRUE, !.Response = TRUE,
                                  !.Error = e]

\* io.Copy (95) ends at EOF, on a failed read of res.Body, or on a failed
\* write to w; process returns
LegacyCopyEnd ==
  \E e \in {"", "truncated", "write"} :
    /\ pc = "L.Copy"
    /\ e = "" => cpend = <<>> /\ resBody = <<>>
    /\ e = "truncated" => cpend = <<>> /\ resBody # <<>>
    /\ e = "write" => cpend # <<>>
    /\ w' = [w EXCEPT !.alive = (e # "write")]
    /\ d' = LegacyData(e)
    /\ conn' = IF e = "truncated" THEN "closed" ELSE CloseBody
    /\ pc' = IF e = "" THEN "L.ok" ELSE "L.error"
    /\ UNCHANGED <<fn, r, inBody, requestBuf, responseBuf, cpend, req, wstate,
                   wpend, upRecv, rt, firstByte, res, resBody, upMode, ch,
                   sent, now>>

\* if err != nil { log; cb(-1, err); http.Error(w, ..., 503); return } (42-47)
LegacyHandlerError ==
  /\ pc = "L.error"
  /\ w' = httpError(w, d.Error)
  /\ pc' = "done"
  /\ UNCHANGED <<fn, r, inBody, d, requestBuf, responseBuf, cpend, req, conn,
                 wstate, wpend, upRecv, rt, firstByte, res, resBody, upMode,
                 ch, sent, now>>

\* a handler that sends whatever the status
legacyPublishesAlways(code) == TRUE

\* if d.StatusCode == http.StatusOK (52)
legacyPublishes(code) == code = StatusOK

\* log; cb(d.StatusCode, nil); ch <- d for a 200 (49-54)
LegacyHandlerSend ==
  /\ pc = "L.ok"
  /\ legacyPublishes(d.StatusCode)
  /\ Len(ch) < ChanCap
  /\ ch' = chanSend(ch, Mine)
  /\ sent' = sent \o Own(SubSeq(ch', Len(ch) + 1, Len(ch')))
  /\ pc' = "done"
  /\ UNCHANGED <<fn, r, inBody, w, d, requestBuf, responseBuf, cpend, req,
                 conn, wstate, wpend, upRecv, rt, firstByte, res, resBody,
                 upMode, now>>

\* log; cb(d.StatusCode, nil); no send for another status (49-55)
LegacyHandlerSkip ==
  /\ pc = "L.ok"
  /\ ~legacyPublishes(d.StatusCode)
  /\ pc' = "done"
  /\ UNCHANGED <<fn, r, inBody, w, d, requestBuf, responseBuf, cpend, req,
                 conn, wstate, wpend, upRecv, rt, firstByte, res, resBody,
                 upMode, ch, sent, now>>

\* ----------------------------------------------------- specifications
Next ==
  \/ ServeHTTP
  \/ prepareRequestFail \/ prepareRequestOk
  \/ processRoundTripErr \/ processWriteHeader
  \/ processCopyRead \/ processCopyWrite \/ processCopyWriteErr
  \/ processCopyReadErr \/ processCopyEOF
  \/ NewHandlerStampEnd \/ NewHandlerSend
  \/ NewHandlerError \/ NewHandlerLog
  \/ TransportDialFail \/ TransportDialOk
  \/ WriteLoopRead \/ WriteLoopWrite \/ WriteLoopDone \/ WriteLoopFail
  \/ ReadLoopFirstByte \/ ReadLoopResponse \/ ReadLoopReset
  \/ TransportHeaderTimeout
  \/ OtherSend \/ Receive

Spec == Init /\ [][Next]_vars

\* the steps of the handler's goroutine, save the channel send
HandlerStep ==
  \/ ServeHTTP
  \/ prepareRequestFail \/ prepareRequestOk
  \/ processRoundTripErr \/ processWriteHeader
  \/ processCopyRead \/ processCopyWrite \/ processCopyEOF
  \/ NewHandlerStampEnd
  \/ NewHandlerError \/ NewHandlerLog

\* the steps the transport takes by itself: the dial ends, the write loop
\* moves, an armed timer fires.  What the upstream or the caller may never
\* do (answer, reset, break a stream) is under no fairness.
TransportStep ==
  \/ TransportDialOk
  \/ WriteLoopRead \/ WriteLoopWrite \/ WriteLoopDone
  \/ TransportHeaderTimeout

\* the goroutines are scheduled; nothing is assumed of the consumer of the
\* channel
StallSpec ==
  /\ Spec
  /\ WF_vars(HandlerStep)
  /\ WF_vars(NewHandlerSend)
  /\ WF_vars(TransportStep)

\* the consumer drains the channel, and a sender blocked on the channel is
\* served once room is made again and again (senders queue in order)
LiveSpec ==
  /\ Spec
  /\ WF_vars(HandlerStep)
  /\ SF_vars(NewHandlerSend)
  /\ WF_vars(TransportStep)
  /\ WF_vars(Receive)

NextLegacy ==
  \/ LegacyServeHTTP
  \/ LegacyPrepareRequestFail \/ LegacyPrepareRequestOk
  \/ LegacyRoundTripErr \/ LegacyWriteHeader
  \/ processCopyRead \/ processCopyWrite \/ LegacyCopyEnd
  \/ LegacyHandlerError \/ LegacyHandlerSend \/ LegacyHandlerSkip
  \/ TransportDialFail \/ TransportDialOk
  \/ WriteLoopRead \/ WriteLoopWrite \/ WriteLoopDone \/ WriteLoopFail
  \/ ReadLoopFirstByte \/ ReadLoopResponse \/ ReadLoopReset
  \/ TransportHeaderTimeout
  \/ OtherSend \/ Receive

SpecLegacy == Init /\ [][NextLegacy]_vars

\* ---------------------------------------------------- rewrite on its own
\* rewrite is called with an inbound URL and a target
InitRewrite ==
  /\ HandlerInit
  /\ fn \in {[op |-> "rewrite", wire |-> s.wire, source |-> s.url,
              target |-> t, out |-> <<>>, done |-> FALSE] :
               s \in SourceURLs, t \in TargetURLs}

\* newurl := rewrite(r.URL, target)
RewriteCall ==
  /\ fn.op = "rewrite"
  /\ ~fn.done
  /\ fn' = [fn EXCEPT !.out = rewrite(fn.source, fn.target), !.done = TRUE]
  /\ UNCHANGED <<pc, r, inBody, w, d, requestBuf, responseBuf, cpend, req,
                 conn, wstate, wpend, upRecv, rt, firstByte, res, resBody,
                 upMode, ch, sent, now>>

NextRewrite == RewriteCall

SpecRewrite == InitRewrite /\ [][NextRewrite]_vars

\* ------------------------------------------------ copyHeaders on its own
\* copyHeaders is called with a destination and a source header map
InitCopyHeaders ==
  /\ HandlerInit
  /\ fn \in {[op |-> "copyHeaders", dst |-> hd, src |-> hs, out |-> hd,
              done |-> FALSE] : hd \in HeaderMaps, hs \in HeaderMaps}

\* copyHeaders(dst, src): dst is changed in place
CopyHeadersCall ==
  /\ fn.op = "copyHeaders"
  /\ ~fn.done
  /\ fn' = [fn EXCEPT !.out = copyHeaders(fn.dst, fn.src), !.done = TRUE]
  /\ UNCHANGED <<pc, r, inBody, w, d, requestBuf, responseBuf, cpend, req,
                 conn, wstate, wpend, upRecv, rt, firstByte, res, resBody,
                 upMode, ch, sent, now>>

NextCopyHeaders == CopyHeadersCall

SpecCopyHeaders == InitCopyHeaders /\ [][NextCopyHeaders]_vars


\* ------------------------------------------------------------- the claims
\* the relay of the response body reached the end of the body and wrote all
\* of it to the caller
RelayComplete == rt.state = "ok" /\ resBody = <<>> /\ cpend = <<>>

C4_CapturesEqualTransmitted ==
  pc = "done" /\ rt.state = "ok" /\ d.Error = "" =>
    /\ Len(sent) = 1
    /\ sent[1].Request.bytes = upRecv
    /\ sent[1].Response.bytes = w.Body

\* C4 amended: for every request whose round trip and relay completed
\* without error, the body the upstream received is a prefix of the record's
\* request_body, and equal to it when the transport had written the whole
\* request before the response was relayed; the record's response_body is
\* the body the caller received.
C4_CapturesCoverTransmitted ==
  pc = "done" /\ rt.state = "ok" /\ d.Error = "" =>
    /\ Len(sent) = 1
    /\ IsPrefix(upRecv, sent[1].Request.bytes)
    /\ wstate = "done" => sent[1].Request.bytes = upRecv
    /\ sent[1].Response.bytes = w.Body

\* C4 witness: two-byte bodies went both ways and the request was written
\* in full
C4_Witness ==
  /\ pc = "done" /\ rt.state = "ok" /\ d.Error = "" /\ wstate = "done"
  /\ Len(upRecv) = 2 /\ Len(w.Body) = 2

C6_SendNeverBlocks == (pc = "send") ~> (pc = "done")

\* C7: the response written to the caller is the upstream's exact response
\* (status, body and nothing else) or a 503 whose body is the error message;
\* in particular no error message is written after the upstream's status
\* has been written.
C7_TwoShapes ==
  pc = "done" =>
    /\ \/ /\ rt.state = "ok"
          /\ w.Code = res.StatusCode
          /\ w.Body = res.Body
          /\ w.ErrText = <<>>
       \/ /\ w.Code = StatusServiceUnavailable
          /\ w.Body = <<>>
          /\ Len(w.ErrText) = 1
    /\ rt.state = "ok" => w.ErrText = <<>>

\* the outbound request exists once prepareRequest has succeeded
Prepared == pc \notin {"idle", "prepareRequest"} /\ validMethod(r.Method)
\* the response headers have been written from the upstream's response
Relayed == rt.state = "ok" /\ w.wroteHeader

\* C8 as stated: every header of the inbound request is on the outbound
\* request with an identical value, and every header of the upstream
\* response is on the response written to the caller with an identical value.
C8_HeadersIdentical ==
  /\ Prepared =>
       \A k \in HeaderKeys : r.Header[k] # <<>> => req.Header[k] = r.Header[k]
  /\ Relayed =>
       \A k \in HeaderKeys :
         res.Header[k] # <<>> => w.SentHeader[k] = res.Header[k]

\* C8 amended: every header key of the inbound request is on the outbound
\* request, and every header key of the upstream response is on the response
\* written to the caller, carrying as its only value the first value the
\* source has for the key (the identical value when the source has one).
C8_HeadersFirstValue ==
  /\ Prepared =>
       \A k \in HeaderKeys :
         r.Header[k] # <<>> => req.Header[k] = <<r.Header[k][1]>>
  /\ Relayed =>
       \A k \in HeaderKeys :
         res.Header[k] # <<>> => w.SentHeader[k] = <<res.Header[k][1]>>

\* C8 witness: a two-valued header went both ways, next to a one-valued one
C8_Witness ==
  /\ pc = "done" /\ Relayed
  /\ r.Header["X-Header"] = <<"v2", "v1">>
  /\ r.Header["Source"] = <<"v1">>
  /\ res.Header["X-Header"] = <<"v2", "v1">>

C10_SourceTag ==
  \A i \in 1..Len(sent) : sent[i].Source = Get(r.Header, "Source")

\* C11: the result of rewrite is always targetScheme://targetHost followed
\* by the inbound path (as the request carried it, or as r.URL.Path holds
\* it) and by "?" and the inbound query when the query is non-empty.
RewriteExpected(path) ==
  <<fn.target.Scheme, ":", "//", fn.target.Host>> \o path
    \o (IF fn.source.RawQuery # "" THEN <<"?", fn.source.RawQuery>>
        ELSE <<>>)

C11_RewriteConcatenates ==
  (fn.op = "rewrite" /\ fn.done) =>
    \/ fn.out = RewriteExpected(fn.wire)
    \/ fn.out = RewriteExpected(fn.source.Path)

\* C12: once the request's record has been sent on the channel, no step of
\* the request's pipeline writes to the request or response capture buffer
\* the record refers to.
C12_PublishedRecordFinal ==
  [][sent # <<>> =>
       (requestBuf' = requestBuf /\ responseBuf' = responseBuf)]_vars

\* C13: at every point of a request the request-body bytes handed to the
\* transport (written upstream or about to be) are a prefix of the request
\* capture buffer, the response-body bytes handed to the caller's writer
\* are a prefix of the response capture buffer, and each buffer holds the
\* bytes in the order of the body they were read from.
C13_PeerBytesPrefixOfCapture ==
  /\ IsPrefix(upRecv \o wpend, requestBuf)
  /\ IsPrefix(w.Body \o cpend, responseBuf)
  /\ IsPrefix(requestBuf, r.Body)
  /\ IsPrefix(responseBuf, res.Body)

\* both bodies are part-way: one byte has reached each peer, two are
\* captured
C13_Witness ==
  /\ Len(upRecv) = 1 /\ Len(requestBuf) = 2
  /\ Len(w.Body) = 1 /\ Len(responseBuf) = 2

\* C14: when the relay of the response body ends in an I/O error (the write
\* to the caller fails, or the upstream stream breaks), the record sent has
\* the error set, its Response is the capture of the bytes read up to that
\* point, its StatusCode is the upstream's status, and the status written
\* to the caller is still the upstream's status after the handler returned.
RelayFailed == rt.state = "ok" /\ d.Error # ""

C14_RelayErrorRecord ==
  /\ (RelayFailed /\ pc \in {"respond", "done"}) =>
       /\ Len(sent) = 1
       /\ sent[1].Error \in {"write", "truncated"}
       /\ ~sent[1].Response.nil
       /\ sent[1].Response.bytes =
            SubSeq(res.Body, 1, Len(res.Body) - Len(resBody))
       /\ sent[1].StatusCode = res.StatusCode
  /\ (RelayFailed /\ pc = "done") =>
       /\ w.wroteHeader
       /\ w.Code = res.StatusCode

\* a 200 response of two bytes broke after the first; the handler returned
C14_Witness ==
  /\ pc = "done"
  /\ d.Error = "truncated"
  /\ res.StatusCode = StatusOK
  /\ responseBuf = <<1>>
  /\ Len(res.Body) = 2

\* C15: in every record sent, StatusCode is the status the upstream
\* returned or 503; the record of a request that obtained no upstream
\* response (the outbound request could not be constructed, or the round
\* trip failed) has StatusCode 503 and the error set.
C15_StatusUpstreamOr503 ==
  \A i \in 1..Len(sent) :
    /\ \/ rt.state = "ok" /\ sent[i].StatusCode = res.StatusCode
       \/ sent[i].StatusCode = StatusServiceUnavailable
    /\ rt.state # "ok" =>
         /\ sent[i].StatusCode = StatusServiceUnavailable
         /\ sent[i].Error # ""

\* C16: when the outbound request cannot be constructed, no round trip is
\* attempted and nothing is read from or written to the network; the
\* caller receives 503; a record is sent with the error set and with the
\* request capture buffer (nothing was read, so it is empty) as Request.
ConstructionFailed == pc # "idle" /\ ~validMethod(r.Method)

C16_ConstructionFailure ==
  /\ ConstructionFailed =>
       /\ rt.state = "none" /\ conn = "none" /\ wstate = "idle"
       /\ upRecv = <<>> /\ inBody = r.Body
       /\ ~w.wroteHeader \/ w.Code = StatusServiceUnavailable
  /\ (ConstructionFailed /\ pc \in {"respond", "done"}) =>
       /\ Len(sent) = 1
       /\ sent[1].Error = "construct"
       /\ ~sent[1].Request.nil
       /\ sent[1].Request.bytes = requestBuf
       /\ requestBuf = <<>>
  /\ (ConstructionFailed /\ pc = "done") =>
       /\ w.Code = StatusServiceUnavailable
       /\ w.ErrText = <<"construct">>
       /\ w.Body = <<>>

\* a request with a body and an invalid method was answered
C16_Witness ==
  /\ pc = "done"
  /\ ~validMethod(r.Method)
  /\ Len(r.Body) = MaxBody
  /\ w.Code = StatusServiceUnavailable
  /\ Len(sent) = 1

\* C17 as stated: after copyHeaders every key of the source carries on the
\* destination a single value, the last one the source has for it, in
\* place of whatever the destination had.
C17_LastValueWins ==
  (fn.op = "copyHeaders" /\ fn.done) =>
    \A k \in HeaderKeys :
      fn.src[k] # <<>> => fn.out[k] = <<fn.src[k][Len(fn.src[k])]>>

\* C17: after copyHeaders every key of the source carries on the
\* destination a single value, the first one the source has for it, in
\* place of whatever the destination had; the keys the source does not
\* have keep the destination's values.
C17_FirstValueWins ==
  (fn.op = "copyHeaders" /\ fn.done) =>
    \A k \in HeaderKeys :
      IF fn.src[k] # <<>> THEN fn.out[k] = <<fn.src[k][1]>>
      ELSE fn.out[k] = fn.dst[k]

\* a key with two values was copied onto a destination that had two values
\* for it
C17_Witness ==
  /\ fn.op = "copyHeaders" /\ fn.done
  /\ fn.src["X-Header"] = <<"v2", "v1">>
  /\ fn.dst["X-Header"] = <<"v2", "v1">>
  /\ fn.src["Source"] = <<>>
  /\ fn.dst["Source"] = <<"v1">>

\* C18: in every record sent, Start and End are set, WroteRequest is unset
\* exactly when the transport never got the request fully written, and
\* GotFirstResponseByte is unset exactly when the transport never saw a
\* first byte of a response.
C18_TimestampsMatchPhases ==
  \A i \in 1..Len(sent) :
    /\ sent[i].Times.Start # 0
    /\ sent[i].Times.End # 0
    /\ (sent[i].Times.WroteRequest = 0) <=> (wstate # "done")
    /\ (sent[i].Times.GotFirstResponseByte = 0) <=> ~firstByte

\* the set-once half of C18: a timestamp that is set is not written again
TimestampsSetOnce ==
  [][\A f \in DOMAIN ZeroTimes :
       (pc # "idle" /\ d.Times[f] # 0) => d'.Times[f] = d.Times[f]]_vars

\* C19: in every record sent, the timestamps that are set are in the order
\* Start <= WroteRequest <= GotFirstResponseByte <= End.
Ordered(a, b) == a = 0 \/ b = 0 \/ a <= b

C19_TimestampsInPhaseOrder ==
  \A i \in 1..Len(sent) :
    LET t == sent[i].Times
    IN /\ Ordered(t.Start, t.WroteRequest)
       /\ Ordered(t.Start, t.GotFirstResponseByte)
       /\ Ordered(t.WroteRequest, t.GotFirstResponseByte)
       /\ Ordered(t.WroteRequest, t.End)
       /\ Ordered(t.GotFirstResponseByte, t.End)

====
